---------------------------- MODULE Spec2Model ----------------------------
(***************************************************************************)
(* Model of skills/education/document-to-narration/scripts/                *)
(* extract-scene-boundaries.py: the alignment of scene opening phrases     *)
(* against a word-level transcript.                                        *)
(*                                                                         *)
(* Representation.                                                         *)
(*  - A Python str is a sequence of characters; a character is a string of *)
(*    the model naming it ("a", "A", " ", "!", ...).  "Idot" names U+0130  *)
(*    (capital I with dot above, lowercased by Python to "i" followed by   *)
(*    the combining dot U+0307, here "cdot").                              *)
(*  - A time is an integer number of milliseconds, so the code's           *)
(*    `start_time + 1` is `+ OneSecond` and round(x, 2) rounds to a        *)
(*    multiple of 10.  Arithmetic is exact; where the decimal result is a  *)
(*    tie between two multiples of 10 the binary value of the float        *)
(*    decides in Python, so the model allows both.                         *)
(*  - Optional[float] is <<>> (None) or <<t>>.                             *)
(*  - List indices are 0-based in the code and in the model's index        *)
(*    variables; a TLA+ sequence s holds the code's s[i] at s[i + 1].      *)
(***************************************************************************)
EXTENDS Integers, Sequences, FiniteSets, TLC

VARIABLES
    pc,                 \* position of the run: which step of main comes next
    scenes_dir_exists,  \* input: scenes_dir.exists()
    transcript_exists,  \* input: transcript_path.exists()
    scene_files,        \* input: the *.txt files of scenes_dir, stem -> text
    transcript,         \* input: data["segments"], each a sequence of words
    words,              \* extract_boundaries: words
    phrases,            \* extract_boundaries: phrases
    boundaries,         \* extract_boundaries: boundaries
    last_end,           \* extract_boundaries: last_end
    search_from,        \* extract_boundaries: search_from
    matched,            \* per scene: the index find_phrase_in_transcript matched, -1 if none
    cursors,            \* per scene: search_from after the scene's step
    stderr,             \* the lines printed to sys.stderr
    stdout,             \* what main printed: <<>> or <<[boundaries, total]>>
    exit_code,          \* -1 while running, then the process's exit code
    arg,                \* pure-function specifications: the argument
    ret                 \* pure-function specifications: the results so far

vars == <<pc, scenes_dir_exists, transcript_exists, scene_files, transcript,
          words, phrases, boundaries, last_end, search_from, matched, cursors,
          stderr, stdout, exit_code, arg, ret>>

runVars == <<pc, scenes_dir_exists, transcript_exists, scene_files, transcript,
             words, phrases, boundaries, last_end, search_from, matched,
             cursors, stderr, stdout, exit_code>>

---------------------------------------------------------------------------
(* Bounds of the model *)

MaxStrLen == 3        \* SpecNorm: longest token normalised
MaxFindWords == 3     \* SpecFind: longest transcript searched
MaxWords == 3         \* Spec: most words in a transcript
MaxScenes == 3        \* Spec: most scene files in the directory

(* Program constants *)

OpeningWords == 5     \* text.split()[:5]
PrefixChars == 3      \* pw[:3]
OneSecond == 1000     \* start_time + 1, in milliseconds
Centi == 10           \* round(x, 2): a hundredth of a second, in milliseconds

---------------------------------------------------------------------------
(* Python values *)

None == <<>>
Some(t) == <<t>>

Space == " "

\* str.isspace for the characters of the model
IsSpace(c) == c = Space

\* re's \w on str: alphanumeric characters and the underscore
IsWordChar(c) == c \notin {Space, "!", ",", "cdot"}

\* str.lower, one character at a time
LowerChar(c) ==
    CASE c = "A" -> <<"a">>
      [] c = "B" -> <<"b">>
      [] c = "Idot" -> <<"i", "cdot">>
      [] OTHER -> <<c>>

RECURSIVE lower(_)
lower(s) == IF s = <<>> THEN <<>> ELSE LowerChar(Head(s)) \o lower(Tail(s))

\* re.sub(r"[^\w]", "", s)
RECURSIVE RemoveNonWord(_)
RemoveNonWord(s) ==
    IF s = <<>> THEN <<>>
    ELSE IF IsWordChar(Head(s)) THEN <<Head(s)>> \o RemoveNonWord(Tail(s))
    ELSE RemoveNonWord(Tail(s))

\* s[:n]
Take(s, n) == SubSeq(s, 1, IF Len(s) < n THEN Len(s) ELSE n)

\* s.startswith(p)
startswith(s, p) == Len(p) <= Len(s) /\ SubSeq(s, 1, Len(p)) = p

RECURSIVE lstrip(_)
lstrip(s) == IF s # <<>> /\ IsSpace(Head(s)) THEN lstrip(Tail(s)) ELSE s

RECURSIVE rstrip(_)
rstrip(s) ==
    IF s # <<>> /\ IsSpace(s[Len(s)]) THEN rstrip(SubSeq(s, 1, Len(s) - 1)) ELSE s

\* str.strip()
strip(s) == rstrip(lstrip(s))

\* str.split(): the maximal runs of non-whitespace characters, in order
RECURSIVE SplitFrom(_, _, _)
SplitFrom(s, cur, acc) ==
    IF s = <<>> THEN (IF cur = <<>> THEN acc ELSE Append(acc, cur))
    ELSE IF IsSpace(Head(s))
         THEN SplitFrom(Tail(s), <<>>, IF cur = <<>> THEN acc ELSE Append(acc, cur))
         ELSE SplitFrom(Tail(s), Append(cur, Head(s)), acc)

split(s) == SplitFrom(s, <<>>, <<>>)

\* " ".join(ts)
RECURSIVE join(_)
join(ts) ==
    IF ts = <<>> THEN <<>>
    ELSE IF Len(ts) = 1 THEN ts[1]
    ELSE ts[1] \o <<Space>> \o join(Tail(ts))

---------------------------------------------------------------------------
(* normalize_word *)

\* a slip: punctuation removed before lowercasing
normalize_word_StripFirst(word) == lower(RemoveNonWord(word))

normalize_word(word) == RemoveNonWord(lower(word))

---------------------------------------------------------------------------
(* find_phrase_in_transcript *)

\* a slip: the transcript word must equal the phrase word
PhraseMatchesAt_Exact(phrase_normalized, ws, i) ==
    \A j \in 0 .. Len(phrase_normalized) - 1 :
        normalize_word(ws[i + j + 1].word) = phrase_normalized[j + 1]

\* lines 69-75: every phrase word is matched by the transcript word at i + j
PhraseMatchesAt(phrase_normalized, ws, i) ==
    \A j \in 0 .. Len(phrase_normalized) - 1 :
        startswith(normalize_word(ws[i + j + 1].word),
                   Take(phrase_normalized[j + 1], PrefixChars))

\* lines 68-80: the scan from index i; the index matched, -1 if none
RECURSIVE ScanFrom(_, _, _)
ScanFrom(phrase_normalized, ws, i) ==
    IF i >= Len(ws) - Len(phrase_normalized) + 1 THEN -1
    ELSE IF PhraseMatchesAt(phrase_normalized, ws, i) THEN i
    ELSE ScanFrom(phrase_normalized, ws, i + 1)

\* a slip: a phrase without a word to look for is reported as not found
find_index_EmptyIsNone(phrase, ws, start_from) ==
    LET phrase_words == split(phrase)
        phrase_normalized == [k \in 1 .. Len(phrase_words) |->
                                 normalize_word(phrase_words[k])]
    IN  IF \A k \in 1 .. Len(phrase_normalized) : phrase_normalized[k] = <<>>
        THEN -1
        ELSE ScanFrom(phrase_normalized, ws, start_from)

\* a slip: the scan restarts at the beginning of the transcript
find_index_FromZero(phrase, ws, start_from) ==
    LET phrase_words == split(phrase)
        phrase_normalized == [k \in 1 .. Len(phrase_words) |->
                                 normalize_word(phrase_words[k])]
    IN  ScanFrom(phrase_normalized, ws, 0)

\* the index at which find_phrase_in_transcript returns, -1 when it returns None
find_index(phrase, ws, start_from) ==
    LET phrase_words == split(phrase)
        phrase_normalized == [k \in 1 .. Len(phrase_words) |->
                                 normalize_word(phrase_words[k])]
    IN  ScanFrom(phrase_normalized, ws, start_from)

find_phrase_in_transcript(phrase, ws, start_from) ==
    LET i == find_index(phrase, ws, start_from)
    IN  IF i = -1 THEN None ELSE Some(ws[i + 1].start)

---------------------------------------------------------------------------
(* load_transcript *)

\* lines 30-39: the words of all segments, in order, each word's text stripped
RECURSIVE load_transcript(_)
load_transcript(segments) ==
    IF segments = <<>> THEN <<>>
    ELSE [k \in 1 .. Len(Head(segments)) |->
             [word  |-> strip(Head(segments)[k].word),
              start |-> Head(segments)[k].start,
              end   |-> Head(segments)[k].end]]
         \o load_transcript(Tail(segments))

---------------------------------------------------------------------------
(* get_scene_opening_phrases *)

\* the code point of a character of a file name
CharCode(c) ==
    CASE c = "-" -> 45
      [] c = "." -> 46
      [] c = "0" -> 48
      [] c = "1" -> 49
      [] c = "2" -> 50
      [] c = "t" -> 116
      [] c = "x" -> 120

\* str < str: by code point, a proper prefix first
RECURSIVE StrLess(_, _)
StrLess(s, t) ==
    IF t = <<>> THEN FALSE
    ELSE IF s = <<>> THEN TRUE
    ELSE IF Head(s) # Head(t) THEN CharCode(Head(s)) < CharCode(Head(t))
    ELSE StrLess(Tail(s), Tail(t))

\* the name of the file with stem f: f.stem is the name without ".txt"
FileName(stem) == stem \o <<".", "t", "x", "t">>

\* the order of the paths of one directory
PathLess(f, g) == StrLess(FileName(f), FileName(g))

\* a slip: the files ordered by stem instead of by path
sorted_ByStem(stems) ==
    LET RECURSIVE Sort(_)
        Sort(S) == IF S = {} THEN <<>>
                   ELSE LET m == CHOOSE f \in S : \A g \in S \ {f} : StrLess(f, g)
                        IN  <<m>> \o Sort(S \ {m})
    IN  Sort(stems)

\* line 44: sorted(scenes_dir.glob("*.txt")), as the stems of the files
sorted(stems) ==
    LET RECURSIVE Sort(_)
        Sort(S) == IF S = {} THEN <<>>
                   ELSE LET m == CHOOSE f \in S : \A g \in S \ {f} : PathLess(f, g)
                        IN  <<m>> \o Sort(S \ {m})
    IN  Sort(stems)

\* lines 48-51: the opening phrase of one scene text
opening_phrase(text) == join(Take(split(strip(text)), OpeningWords))

\* lines 44-54: files is the directory, a function from stem to text
get_scene_opening_phrases(files) ==
    LET scene_files_sorted == sorted(DOMAIN files)
    IN  [k \in 1 .. Len(scene_files_sorted) |->
            [slug   |-> scene_files_sorted[k],
             phrase |-> opening_phrase(files[scene_files_sorted[k]])]]

---------------------------------------------------------------------------
(* extract_boundaries *)

\* a slip: the second of skip-ahead is left out
next_search_from_NoSkip(ws, start_time, default) ==
    LET later == {j \in 0 .. Len(ws) - 1 : ws[j + 1].start >= start_time}
    IN  IF later = {} THEN default
        ELSE CHOOSE j \in later : \A k \in later : j <= k

\* a slip: the cursor falls back to 0 when no word starts a second later
next_search_from_DefaultZero(ws, start_time, default) ==
    LET later == {j \in 0 .. Len(ws) - 1 : ws[j + 1].start >= start_time + OneSecond}
    IN  IF later = {} THEN 0
        ELSE CHOOSE j \in later : \A k \in later : j <= k

\* lines 109-112: next((j for j, w in enumerate(ws) if w["start"] >= t + 1), d)
next_search_from(ws, start_time, default) ==
    LET later == {j \in 0 .. Len(ws) - 1 : ws[j + 1].start >= start_time + OneSecond}
    IN  IF later = {} THEN default
        ELSE CHOOSE j \in later : \A k \in later : j <= k

\* a slip: truncation instead of rounding
round2_Truncate(x) == {x - (x % Centi)}

\* round(x, 2): the multiples of Centi nearest to x (two of them on a tie)
round2(x) ==
    LET lo == x - (x % Centi)
        r  == x % Centi
    IN  IF 2 * r < Centi THEN {lo}
        ELSE IF 2 * r > Centi THEN {lo + Centi}
        ELSE {lo, lo + Centi}

\* a slip: the last boundary gets the whole duration
raw_duration_LastWhole(bs, i, total_duration) ==
    IF i + 1 < Len(bs)
    THEN bs[i + 2].start_seconds - bs[i + 1].start_seconds
    ELSE total_duration

\* lines 127-130 before rounding: the duration of boundary i (0-based) of bs
raw_duration(bs, i, total_duration) ==
    IF i + 1 < Len(bs)
    THEN bs[i + 2].start_seconds - bs[i + 1].start_seconds
    ELSE total_duration - bs[i + 1].start_seconds

\* line 242: sum(b["duration_seconds"] for b in bs)
RECURSIVE sum_durations(_)
sum_durations(bs) ==
    IF bs = <<>> THEN 0
    ELSE Head(bs).duration_seconds + sum_durations(Tail(bs))

---------------------------------------------------------------------------
(* The inputs of a run *)

\* scene texts: an empty file, one word, two words with stray whitespace and
\* punctuation, and six words (more than OpeningWords)
SceneTexts ==
    { <<>>,
      <<"A", "b", "c", "d">>,
      <<Space, "b", Space, Space, "a", "b", "c", "!">>,
      <<"d", Space, "d", Space, "d", Space, "d", Space, "d", Space, "d">> }

\* the stems of the files a directory may hold, in the order it is filled
StemList == << <<"2">>, <<"1">>, <<"1", "-", "1">>, <<"1", "0">> >>

\* how long a transcript word lasts, in milliseconds
WordLengths == {205}

\* transcript words as the recogniser writes them: text and start time in
\* milliseconds
WordChoices ==
    { [word |-> <<Space, "A", "b", "c", ",">>, start |-> 0],
      [word |-> <<Space, "A", "b", "c", ",">>, start |-> 1004],
      [word |-> <<Space, "b">>, start |-> 0] }

Min(a, b) == IF a < b THEN a ELSE b

SeqsUpTo(S, n) == UNION {[1 .. k -> S] : k \in 0 .. n}

\* the word entries of the recogniser's JSON
RawWords ==
    { [word |-> w.word, start |-> w.start, end |-> w.start + n] :
        w \in WordChoices, n \in WordLengths }

\* the recogniser's segments for the word list ws: two words to a segment
RECURSIVE Segments(_)
Segments(ws) ==
    IF Len(ws) <= 2 THEN <<ws>>
    ELSE <<SubSeq(ws, 1, 2)>> \o Segments(SubSeq(ws, 3, Len(ws)))

Transcripts ==
    { <<>> } \cup
    { Segments(ws) : ws \in SeqsUpTo(RawWords, MaxWords) }

Directories ==
    UNION { [{StemList[k] : k \in 1 .. n} -> SceneTexts] :
              n \in 0 .. Min(MaxScenes, Len(StemList)) }

NoFiles == [f \in {} |-> <<>>]

InitRunState ==
    /\ pc = "main"
    /\ words = <<>>
    /\ phrases = <<>>
    /\ boundaries = <<>>
    /\ last_end = 0
    /\ search_from = 0
    /\ matched = <<>>
    /\ cursors = <<>>
    /\ stderr = <<>>
    /\ stdout = <<>>
    /\ exit_code = -1

Init ==
    /\ scenes_dir_exists \in BOOLEAN
    /\ transcript_exists \in BOOLEAN
    /\ scene_files \in (IF scenes_dir_exists THEN Directories ELSE {NoFiles})
    /\ transcript \in (IF transcript_exists THEN Transcripts ELSE {<<>>})
    /\ InitRunState
    /\ arg = <<>>
    /\ ret = <<>>

---------------------------------------------------------------------------
(* main and extract_boundaries, step by step *)

\* lines 230-232
MainNoScenesDir ==
    /\ pc = "main"
    /\ ~scenes_dir_exists
    /\ stderr' = Append(stderr, [line |-> "Error: Scenes directory not found"])
    /\ exit_code' = 1
    /\ pc' = "exit"
    /\ UNCHANGED <<scenes_dir_exists, transcript_exists, scene_files, transcript,
                   words, phrases, boundaries, last_end, search_from, matched,
                   cursors, stdout, arg, ret>>

\* lines 234-236
MainNoTranscript ==
    /\ pc = "main"
    /\ scenes_dir_exists
    /\ ~transcript_exists
    /\ stderr' = Append(stderr, [line |-> "Error: Transcript not found"])
    /\ exit_code' = 1
    /\ pc' = "exit"
    /\ UNCHANGED <<scenes_dir_exists, transcript_exists, scene_files, transcript,
                   words, phrases, boundaries, last_end, search_from, matched,
                   cursors, stdout, arg, ret>>

\* lines 239, 85-86: both inputs are read
Load ==
    /\ pc = "main"
    /\ scenes_dir_exists
    /\ transcript_exists
    /\ words' = load_transcript(transcript)
    /\ phrases' = get_scene_opening_phrases(scene_files)
    /\ pc' = "loaded"
    /\ UNCHANGED <<scenes_dir_exists, transcript_exists, scene_files, transcript,
                   boundaries, last_end, search_from, matched, cursors, stderr,
                   stdout, exit_code, arg, ret>>

\* lines 88-90
NoWords ==
    /\ pc = "loaded"
    /\ words = <<>>
    /\ stderr' = Append(stderr, [line |-> "Error: No words found in transcript"])
    /\ exit_code' = 1
    /\ pc' = "exit"
    /\ UNCHANGED <<scenes_dir_exists, transcript_exists, scene_files, transcript,
                   words, phrases, boundaries, last_end, search_from, matched,
                   cursors, stdout, arg, ret>>

\* lines 92-94
NoScenes ==
    /\ pc = "loaded"
    /\ words # <<>>
    /\ phrases = <<>>
    /\ stderr' = Append(stderr, [line |-> "Error: No scene files found"])
    /\ exit_code' = 1
    /\ pc' = "exit"
    /\ UNCHANGED <<scenes_dir_exists, transcript_exists, scene_files, transcript,
                   words, phrases, boundaries, last_end, search_from, matched,
                   cursors, stdout, arg, ret>>

\* lines 96-98
StartLoop ==
    /\ pc = "loaded"
    /\ words # <<>>
    /\ phrases # <<>>
    /\ boundaries' = <<>>
    /\ last_end' = 0
    /\ search_from' = 0
    /\ pc' = "loop"
    /\ UNCHANGED <<scenes_dir_exists, transcript_exists, scene_files, transcript,
                   words, phrases, matched, cursors, stderr, stdout, exit_code,
                   arg, ret>>

\* a slip: last_end is never updated
SceneBody_LastEndStale(i, found) ==
    LET slug       == phrases[i + 1].slug
        phrase     == phrases[i + 1].phrase
        start_time == IF found = None THEN last_end ELSE found[1]
    IN  /\ IF found = None
           THEN /\ stderr' = Append(stderr, [line   |-> "Warning: Could not find scene",
                                             slug   |-> slug,
                                             phrase |-> phrase])
                /\ search_from' = search_from
           ELSE /\ stderr' = stderr
                /\ search_from' = next_search_from(words, start_time, search_from)
        /\ boundaries' = Append(boundaries, [number         |-> i + 1,
                                             slug           |-> slug,
                                             start_seconds  |-> start_time,
                                             opening_phrase |-> phrase])
        /\ last_end' = last_end

\* a slip: an unmatched scene starts at the word under the cursor
SceneBody_FallbackAtCursor(i, found) ==
    LET slug       == phrases[i + 1].slug
        phrase     == phrases[i + 1].phrase
        start_time == IF found = None THEN words[search_from + 1].start ELSE found[1]
    IN  /\ IF found = None
           THEN /\ stderr' = Append(stderr, [line   |-> "Warning: Could not find scene",
                                             slug   |-> slug,
                                             phrase |-> phrase])
                /\ search_from' = search_from
           ELSE /\ stderr' = stderr
                /\ search_from' = next_search_from(words, start_time, search_from)
        /\ boundaries' = Append(boundaries, [number         |-> i + 1,
                                             slug           |-> slug,
                                             start_seconds  |-> start_time,
                                             opening_phrase |-> phrase])
        /\ last_end' = start_time

\* lines 103-121 for scene i (0-based), given what line 101 returned
SceneBody(i, found) ==
    LET slug       == phrases[i + 1].slug
        phrase     == phrases[i + 1].phrase
        start_time == IF found = None THEN last_end ELSE found[1]
    IN  /\ IF found = None
           THEN /\ stderr' = Append(stderr, [line   |-> "Warning: Could not find scene",
                                             slug   |-> slug,
                                             phrase |-> phrase])
                /\ search_from' = search_from
           ELSE /\ stderr' = stderr
                /\ search_from' = next_search_from(words, start_time, search_from)
        /\ boundaries' = Append(boundaries, [number         |-> i + 1,
                                             slug           |-> slug,
                                             start_seconds  |-> start_time,
                                             opening_phrase |-> phrase])
        /\ last_end' = start_time

\* a slip: an unmatched scene ends the run
SceneStep_AbortOnMiss ==
    /\ pc = "loop"
    /\ Len(boundaries) < Len(phrases)
    /\ LET i     == Len(boundaries)
           found == find_phrase_in_transcript(phrases[i + 1].phrase, words, search_from)
       IN  /\ SceneBody(i, found)
           /\ matched' = Append(matched, find_index(phrases[i + 1].phrase, words,
                                                    search_from))
           /\ pc' = IF found = None THEN "exit" ELSE "loop"
           /\ exit_code' = IF found = None THEN 1 ELSE exit_code
    /\ cursors' = Append(cursors, search_from')
    /\ UNCHANGED <<scenes_dir_exists, transcript_exists, scene_files,
                   transcript, words, phrases, stdout, arg, ret>>

\* lines 100-121: one iteration of the loop over the scenes
SceneStep ==
    /\ pc = "loop"
    /\ Len(boundaries) < Len(phrases)
    /\ LET i == Len(boundaries)
       IN  /\ SceneBody(i, find_phrase_in_transcript(phrases[i + 1].phrase, words,
                                                     search_from))
           /\ matched' = Append(matched, find_index(phrases[i + 1].phrase, words,
                                                    search_from))
    /\ cursors' = Append(cursors, search_from')
    /\ pc' = "loop"
    /\ exit_code' = exit_code
    /\ UNCHANGED <<scenes_dir_exists, transcript_exists, scene_files,
                   transcript, words, phrases, stdout, arg, ret>>

\* lines 123-132: every boundary gets its duration
CalcDurations ==
    /\ pc = "loop"
    /\ Len(boundaries) = Len(phrases)
    /\ LET total_duration == IF words # <<>> THEN words[Len(words)].end ELSE 0
           raw(k) == raw_duration(boundaries, k - 1, total_duration)
           rounded == UNION {round2(raw(k)) : k \in 1 .. Len(boundaries)}
       IN  \E d \in [1 .. Len(boundaries) -> rounded] :
              /\ \A k \in 1 .. Len(boundaries) : d[k] \in round2(raw(k))
              /\ boundaries' = [k \in 1 .. Len(boundaries) |->
                                  [number           |-> boundaries[k].number,
                                   slug             |-> boundaries[k].slug,
                                   start_seconds    |-> boundaries[k].start_seconds,
                                   opening_phrase   |-> boundaries[k].opening_phrase,
                                   duration_seconds |-> d[k]]]
    /\ pc' = "return"
    /\ UNCHANGED <<scenes_dir_exists, transcript_exists, scene_files, transcript,
                   words, phrases, last_end, search_from, matched, cursors, stderr,
                   stdout, exit_code, arg, ret>>

\* lines 241-250: the total of the durations, and the boundaries printed
Output ==
    /\ pc = "return"
    /\ stdout' = <<[boundaries |-> boundaries, total |-> sum_durations(boundaries)]>>
    /\ exit_code' = 0
    /\ pc' = "exit"
    /\ UNCHANGED <<scenes_dir_exists, transcript_exists, scene_files, transcript,
                   words, phrases, boundaries, last_end, search_from, matched,
                   cursors, stderr, arg, ret>>

Next ==
    \/ MainNoScenesDir
    \/ MainNoTranscript
    \/ Load
    \/ NoWords
    \/ NoScenes
    \/ StartLoop
    \/ SceneStep
    \/ CalcDurations
    \/ Output

Spec == Init /\ [][Next]_vars

---------------------------------------------------------------------------
(* normalize_word on its own: it is applied to a token, then to its result *)

NormChars == {"a", "A", "1", "_", "!", Space, "Idot"}

InitNorm ==
    /\ arg \in SeqsUpTo(NormChars, MaxStrLen)
    /\ ret = <<>>
    /\ pc = "normalize"
    /\ scenes_dir_exists = FALSE
    /\ transcript_exists = FALSE
    /\ scene_files = NoFiles
    /\ transcript = <<>>
    /\ words = <<>>
    /\ phrases = <<>>
    /\ boundaries = <<>>
    /\ last_end = 0
    /\ search_from = 0
    /\ matched = <<>>
    /\ cursors = <<>>
    /\ stderr = <<>>
    /\ stdout = <<>>
    /\ exit_code = -1

NormalizeCall ==
    /\ pc = "normalize"
    /\ Len(ret) < 2
    /\ ret' = Append(ret, normalize_word(IF ret = <<>> THEN arg ELSE ret[Len(ret)]))
    /\ UNCHANGED <<arg, runVars>>

NextNorm == NormalizeCall

SpecNorm == InitNorm /\ [][NextNorm]_vars

(* find_phrase_in_transcript on its own *)

FindPhrases ==
    { <<>>,
      <<"a", "b", "c">>,
      <<"A", "b", "c", "d", "!">>,
      <<"a", "b">>,
      <<"b", Space, "a", "b", "c">>,
      <<"!">>,
      <<"d">> }

FindWordTexts == { <<"a", "b", "c">>, <<"A", "b", "c", "d", ",">>, <<"b">> }

FindStarts == {0, 400}

FindWords ==
    { [word |-> w, start |-> s, end |-> s + n] :
        w \in FindWordTexts, s \in FindStarts, n \in WordLengths }

InitFind ==
    /\ \E p \in FindPhrases, ws \in SeqsUpTo(FindWords, MaxFindWords) :
          /\ ws # <<>>
          /\ \E c \in 0 .. Len(ws) - 1 :
                arg = [phrase |-> p, words |-> ws, start_from |-> c]
    /\ ret = <<>>
    /\ pc = "find"
    /\ scenes_dir_exists = FALSE
    /\ transcript_exists = FALSE
    /\ scene_files = NoFiles
    /\ transcript = <<>>
    /\ words = <<>>
    /\ phrases = <<>>
    /\ boundaries = <<>>
    /\ last_end = 0
    /\ search_from = 0
    /\ matched = <<>>
    /\ cursors = <<>>
    /\ stderr = <<>>
    /\ stdout = <<>>
    /\ exit_code = -1

FindCall ==
    /\ pc = "find"
    /\ ret = <<>>
    /\ ret' = <<find_phrase_in_transcript(arg.phrase, arg.words, arg.start_from)>>
    /\ UNCHANGED <<arg, runVars>>

NextFind == FindCall

SpecFind == InitFind /\ [][NextFind]_vars

---------------------------------------------------------------------------
(* Properties of normalize_word *)

\* C10: normalization is idempotent: normalising a normalised token gives the
\* same token; the normalised token holds word characters only, none of them
\* changed by lowercasing.
C10_NormalizeIdempotent ==
    /\ Len(ret) >= 1 =>
          \A k \in 1 .. Len(ret[1]) :
              IsWordChar(ret[1][k]) /\ LowerChar(ret[1][k]) = <<ret[1][k]>>
    /\ Len(ret) = 2 => ret[2] = ret[1]

\* a token that normalisation changes has been normalised twice
C10_Witness ==
    /\ pc = "normalize"
    /\ Len(ret) = 2
    /\ ret[1] # arg
    /\ ret[1] # <<>>

---------------------------------------------------------------------------
(* Properties of find_phrase_in_transcript *)

\* the normalised tokens of a phrase
NormalizedTokens(phrase) ==
    [k \in 1 .. Len(split(phrase)) |-> normalize_word(split(phrase)[k])]

\* transcript word i + j starts with the first 3 characters of phrase token j
\* (with the whole token when it is shorter), for every j
PrefixRun(pn, ws, i) ==
    \A j \in 1 .. Len(pn) :
        LET tw == normalize_word(ws[i + j].word)
            n  == IF Len(pn[j]) < 3 THEN Len(pn[j]) ELSE 3
        IN  /\ Len(tw) >= n
            /\ \A c \in 1 .. n : tw[c] = pn[j][c]

\* the normalised transcript words from index i on are exactly the tokens
ExactRun(pn, ws, i) ==
    \A j \in 1 .. Len(pn) : normalize_word(ws[i + j].word) = pn[j]

\* the candidate indices of a search: cursor .. len(words) - phraseLength
Candidates(pn, ws, cursor) == cursor .. Len(ws) - Len(pn)

\* C9: the call returns the start of words[i] for the smallest candidate index
\* i at which the prefix test passes at every offset, and None exactly when
\* there is no such index.
C9_FirstPrefixMatch ==
    (pc = "find" /\ ret # <<>>) =>
        LET pn   == NormalizedTokens(arg.phrase)
            hits == {i \in Candidates(pn, arg.words, arg.start_from) :
                        PrefixRun(pn, arg.words, i)}
        IN  IF hits = {} THEN ret[1] = None
            ELSE \E i \in hits :
                    /\ \A h \in hits : i <= h
                    /\ ret[1] = Some(arg.words[i + 1].start)

\* a phrase token that is a proper prefix of the transcript word matched it,
\* at an index after the cursor
C9_Witness ==
    /\ pc = "find"
    /\ ret # <<>>
    /\ ret[1] # None
    /\ \E i \in arg.start_from + 1 .. Len(arg.words) - 1 :
          /\ ret[1] = Some(arg.words[i + 1].start)
          /\ \A h \in arg.start_from .. i - 1 :
                arg.words[h + 1].start # arg.words[i + 1].start
          /\ arg.phrase = <<"a", "b", "c">>
          /\ normalize_word(arg.words[i + 1].word) = <<"a", "b", "c", "d">>

\* no transcript word matches: the call returned None
C9_WitnessNone ==
    /\ pc = "find"
    /\ ret = <<None>>
    /\ Len(split(arg.phrase)) > Len(arg.words) - arg.start_from

\* the first index at or after the cursor where the tokens match exactly
IsFirstExactRun(pn, ws, cursor, k) ==
    /\ k \in Candidates(pn, ws, cursor)
    /\ ExactRun(pn, ws, k)
    /\ \A h \in cursor .. k - 1 : ~ExactRun(pn, ws, h)

---------------------------------------------------------------------------
(* Properties of a run *)

\* extract_boundaries has returned its list
Returned == pc = "return" \/ (pc = "exit" /\ exit_code = 0)

\* the durations have been computed
HasDurations == Returned

Abs(x) == IF x < 0 THEN -x ELSE x

\* the number of files of the directory whose name sorts before that of f
Rank(f) ==
    Cardinality({g \in DOMAIN scene_files : StrLess(FileName(g), FileName(f))})

\* the first (at most five) whitespace-separated tokens of a text, joined by
\* single spaces
FirstTokens(text) ==
    LET ts == split(text)
    IN  join(SubSeq(ts, 1, IF Len(ts) < 5 THEN Len(ts) ELSE 5))

\* C1: the boundary list has one entry per scene file; entry k (0-based)
\* carries number k + 1 and the slug and opening phrase of the k-th file in
\* file-name order, matched or not.
C1_BoundaryPerScene ==
    /\ pc \in {"loop", "return", "exit"} =>
          \A k \in 1 .. Len(boundaries) :
              /\ boundaries[k].number = k
              /\ boundaries[k].slug \in DOMAIN scene_files
              /\ Rank(boundaries[k].slug) = k - 1
              /\ boundaries[k].opening_phrase
                    = FirstTokens(scene_files[boundaries[k].slug])
    /\ Returned => Len(boundaries) = Cardinality(DOMAIN scene_files)

\* three scenes, one of more than five words, some matched and some not
C1_Witness ==
    /\ Returned
    /\ Len(boundaries) = 3
    /\ \E k \in 1 .. 3 : matched[k] = -1
    /\ \E k \in 1 .. 3 : matched[k] # -1
    /\ \E k \in 1 .. 3 :
          Len(split(scene_files[boundaries[k].slug])) > OpeningWords
    /\ boundaries[1].slug # StemList[1]

\* the end time of the last transcript word
TotalDuration == words[Len(words)].end

\* the duration of boundary k (1-based) before any rounding
Difference(k) ==
    IF k < Len(boundaries)
    THEN boundaries[k + 1].start_seconds - boundaries[k].start_seconds
    ELSE TotalDuration - boundaries[k].start_seconds

\* C2 as stated: every duration is the difference of the next start (the
\* total duration for the last boundary) and the boundary's own start.
C2_DurationIsDifference ==
    HasDurations =>
        \A k \in 1 .. Len(boundaries) :
            boundaries[k].duration_seconds = Difference(k)

\* C2 amended: every duration is that difference rounded to a hundredth of a
\* second; starts 0.0 and 5.0 with the last word ending at 6.3 give 5.0 and 1.3.
C2_DurationIsRoundedDifference ==
    /\ HasDurations =>
          \A k \in 1 .. Len(boundaries) :
              /\ boundaries[k].duration_seconds % 10 = 0
              /\ 2 * Abs(boundaries[k].duration_seconds - Difference(k)) <= 10
    /\ LET bs == <<[start_seconds |-> 0], [start_seconds |-> 5000]>>
       IN  /\ round2(raw_duration(bs, 0, 6300)) = {5000}
           /\ round2(raw_duration(bs, 1, 6300)) = {1300}

\* a duration was rounded up, another one is not zero
C2_Witness ==
    /\ HasDurations
    /\ Len(boundaries) >= 2
    /\ \E k \in 1 .. Len(boundaries) :
          boundaries[k].duration_seconds > Difference(k)
    /\ \E k \in 1 .. Len(boundaries) - 1 : boundaries[k].duration_seconds > 0

\* C3 as stated: the durations add up to the total duration, within 0.01 s.
C3_SumIsTotal ==
    (pc = "exit" /\ exit_code = 0) =>
        Abs(stdout[1].total - TotalDuration) <= 10

\* C3 amended: the durations add up to the total duration less the start of
\* the first boundary, within 0.005 s for each boundary.
C3_SumIsTotalAfterFirstStart ==
    (pc = "exit" /\ exit_code = 0) =>
        2 * Abs(stdout[1].total - (TotalDuration - boundaries[1].start_seconds))
            <= 10 * Len(boundaries)

\* three scenes, matched and unmatched, the first one starting after 0
C3_Witness ==
    /\ pc = "exit"
    /\ exit_code = 0
    /\ Len(boundaries) = 3
    /\ boundaries[1].start_seconds > 0
    /\ \E k \in 1 .. 3 : matched[k] = -1
    /\ stdout[1].total # TotalDuration - boundaries[1].start_seconds

---------------------------------------------------------------------------
(* Fallback, exit codes, order of the starts, the cursor *)

\* the warnings printed so far
Warnings == SelectSeq(stderr, LAMBDA e : e.line = "Warning: Could not find scene")

\* the start time of transcript word i (0-based)
StartOf(i) == words[i + 1].start

\* three scenes all processed: the first and the third matched, the second not
FallbackCase ==
    /\ Len(phrases) = 3
    /\ Len(matched) = 3
    /\ matched[1] # -1
    /\ matched[2] = -1
    /\ matched[3] # -1

\* C5: in a 3-scene run where scenes 1 and 3 match and scene 2 does not,
\* scene 2 starts where scene 1 starts (scene 1 lasts 0), exactly one warning
\* is printed and it names scene 2, scenes 1 and 3 start at their own matches,
\* and scene 3 is searched from the cursor scene 1 left.
C5_FallbackReproduction ==
    FallbackCase =>
        /\ boundaries[2].start_seconds = boundaries[1].start_seconds
        /\ boundaries[1].start_seconds = StartOf(matched[1])
        /\ boundaries[3].start_seconds = StartOf(matched[3])
        /\ Len(Warnings) = 1
        /\ Warnings[1].slug = phrases[2].slug
        /\ Warnings[1].phrase = phrases[2].phrase
        /\ cursors[2] = cursors[1]
        /\ LET pn == NormalizedTokens(phrases[3].phrase)
           IN  /\ matched[3] \in Candidates(pn, words, cursors[1])
               /\ PrefixRun(pn, words, matched[3])
               /\ \A h \in cursors[1] .. matched[3] - 1 : ~PrefixRun(pn, words, h)
        /\ HasDurations => boundaries[1].duration_seconds = 0

\* the case, with the cursor moved by scene 1 and scene 3 matched later on
C5_Witness ==
    /\ FallbackCase
    /\ HasDurations
    /\ cursors[1] > 0
    /\ split(phrases[3].phrase) # <<>>
    /\ boundaries[3].start_seconds > boundaries[1].start_seconds
    /\ StartOf(cursors[1]) # boundaries[1].start_seconds

\* the inputs on which a run is fatal
Fatal ==
    \/ ~scenes_dir_exists
    \/ ~transcript_exists
    \/ \A k \in 1 .. Len(transcript) : transcript[k] = <<>>
    \/ DOMAIN scene_files = {}

C6_WitnessFatal ==
    /\ pc = "exit"
    /\ exit_code = 1
    /\ scenes_dir_exists /\ transcript_exists
    /\ words # <<>>

\* the start times of the transcript words never decrease
Monotone == \A k \in 1 .. Len(words) - 1 : words[k].start <= words[k + 1].start

\* C7: on a transcript with non-decreasing start times, when every scene
\* processed so far was matched the starts of the boundaries strictly
\* increase (stated for the runs in which no opening phrase is empty).
C7_StartsStrictlyIncrease ==
    (/\ Monotone
     /\ \A k \in 1 .. Len(phrases) : split(phrases[k].phrase) # <<>>
     /\ \A k \in 1 .. Len(matched) : matched[k] # -1) =>
        \A k \in 1 .. Len(boundaries) - 1 :
            boundaries[k].start_seconds < boundaries[k + 1].start_seconds

\* the cursor before scene k (1-based) was searched
CursorBefore(k) == IF k = 1 THEN 0 ELSE cursors[k - 1]

\* C8: on a transcript with non-decreasing start times the cursor never
\* decreases from one scene to the next, and a matched scene that follows a
\* matched scene starts no earlier than the word at the cursor the earlier
\* scene left.
C8_CursorMonotone ==
    Monotone =>
        /\ \A k \in 1 .. Len(cursors) : CursorBefore(k) <= cursors[k]
        /\ pc = "loop" => search_from = CursorBefore(Len(cursors) + 1)
        /\ \A a, b \in 1 .. Len(matched) :
              (a < b /\ matched[a] # -1 /\ matched[b] # -1) =>
                  boundaries[b].start_seconds >= StartOf(cursors[a])

\* two scenes matched one after the other, the cursor moved by the first
C8_Witness ==
    /\ Monotone
    /\ Len(matched) >= 2
    /\ matched[1] # -1
    /\ matched[2] # -1
    /\ cursors[1] > 0
    /\ split(phrases[2].phrase) # <<>>
    /\ boundaries[2].start_seconds > boundaries[1].start_seconds

---------------------------------------------------------------------------
(* The per-scene step and the cursor *)

\* the indices of the transcript words that start a second or more after t
WordsLaterThan(t) == {j \in 0 .. Len(words) - 1 : words[j + 1].start >= t + 1000}

\* what a step does to the cursor: a step that processes a scene moves it to
\* the first word of the whole transcript starting a second or more after the
\* scene's match, and leaves it alone when the scene is unmatched or there is
\* no such word; no other step touches it
CursorStep ==
    IF pc = "loop" /\ Len(matched') = Len(matched) + 1
    THEN LET k     == Len(matched) + 1
             later == IF matched'[k] = -1 THEN {}
                      ELSE WordsLaterThan(boundaries'[k].start_seconds)
         IN  IF later = {} THEN search_from' = search_from
             ELSE /\ search_from' \in later
                  /\ \A j \in later : search_from' <= j
    ELSE search_from' = search_from

\* C11: in the per-scene step the cursor changes only when the scene matched
\* at a time t and some word starts at or after t + 1.0; it becomes the index
\* of the first such word of the whole transcript; otherwise it is unchanged.
C11_CursorStep == [][CursorStep]_vars

\* one scene matched and moved the cursor, a later scene matched with no word
\* a second later, and a scene was unmatched
C11_Witness ==
    /\ Len(matched) = 3
    /\ \E a \in 1 .. 3 :
          /\ matched[a] # -1
          /\ cursors[a] > CursorBefore(a)
          /\ cursors[a] # matched[a] + 1
    /\ \E b \in 1 .. 3 :
          /\ matched[b] # -1
          /\ WordsLaterThan(boundaries[b].start_seconds) = {}
          /\ cursors[b] = CursorBefore(b)
          /\ cursors[b] > 0
    /\ \E c \in 1 .. 3 : matched[c] = -1

---------------------------------------------------------------------------
(* The scan across the scenes *)

\* the number of tokens of the opening phrase of scene k (1-based)
PhraseLength(k) == Len(split(phrases[k].phrase))

\* C12: the scan is left to right and non-overlapping: of two matched scenes
\* the later one is matched after the last word the earlier match covers
\* (index + phraseLength - 1), so no transcript word serves two scenes (stated
\* for transcripts with non-decreasing start times and non-empty phrases).
C12_NonOverlappingScan ==
    (/\ Monotone
     /\ \A k \in 1 .. Len(phrases) : PhraseLength(k) > 0) =>
        \A a, b \in 1 .. Len(matched) :
            (a < b /\ matched[a] # -1 /\ matched[b] # -1) =>
                matched[b] > matched[a] + PhraseLength(a) - 1

---------------------------------------------------------------------------
(* The fallback state *)

\* the matched scenes before scene k (1-based)
MatchedBefore(k) == {a \in 1 .. k - 1 : matched[a] # -1}

\* the start of the nearest matched scene before scene k, 0 when there is none
NearestMatchedStart(k) ==
    IF MatchedBefore(k) = {} THEN 0
    ELSE LET a == CHOOSE x \in MatchedBefore(k) : \A y \in MatchedBefore(k) : y <= x
         IN  boundaries[a].start_seconds

\* C13: last_end is 0 before the first scene and afterwards the start given to
\* the scene processed last; so an unmatched scene starts where the nearest
\* matched scene before it starts, at 0 when there is none, and an unmatched
\* scene followed by an unmatched scene lasts 0.
C13_LastKnownStart ==
    /\ last_end = IF boundaries = <<>> THEN 0
                  ELSE boundaries[Len(boundaries)].start_seconds
    /\ Len(matched) = Len(boundaries)
    /\ \A k \in 1 .. Len(matched) :
          matched[k] = -1 => boundaries[k].start_seconds = NearestMatchedStart(k)
    /\ HasDurations =>
          \A k \in 1 .. Len(matched) - 1 :
              (matched[k] = -1 /\ matched[k + 1] = -1)
                  => boundaries[k].duration_seconds = 0

\* a scene matched after 0 and the two scenes after it unmatched
C13_Witness ==
    /\ HasDurations
    /\ Len(matched) = 3
    /\ matched[1] # -1
    /\ matched[2] = -1
    /\ matched[3] = -1
    /\ boundaries[1].start_seconds > 0
    /\ boundaries[3].start_seconds = boundaries[1].start_seconds
    /\ boundaries[2].duration_seconds = 0
    /\ boundaries[3].duration_seconds # 0

\* an unmatched first scene starts at 0, the next scene matched after 0
C13_WitnessFirst ==
    /\ Len(matched) >= 2
    /\ matched[1] = -1
    /\ matched[2] # -1
    /\ boundaries[1].start_seconds = 0
    /\ boundaries[2].start_seconds > 0

---------------------------------------------------------------------------
(* Runs over scene files with empty and punctuation-only opening phrases *)

\* scene texts: an empty file, a punctuation mark, and a word followed by a
\* punctuation mark
EmptyPhraseTexts ==
    { <<>>,
      <<"!">>,
      <<"b", Space, "!">> }

EmptyPhraseDirectories ==
    UNION { [{StemList[k] : k \in 1 .. n} -> EmptyPhraseTexts] :
              n \in 0 .. Min(MaxScenes, Len(StemList)) }

InitEmptyPhrase ==
    /\ scenes_dir_exists \in BOOLEAN
    /\ transcript_exists \in BOOLEAN
    /\ scene_files \in (IF scenes_dir_exists THEN EmptyPhraseDirectories
                        ELSE {NoFiles})
    /\ transcript \in (IF transcript_exists THEN Transcripts ELSE {<<>>})
    /\ InitRunState
    /\ arg = <<>>
    /\ ret = <<>>

SpecEmptyPhrase == InitEmptyPhrase /\ [][Next]_vars

\* token j of the normalised phrase pn passes the prefix test on word i + j
\* (0-based i, 1-based j)
TokenPasses(pn, i, j) ==
    LET tw == normalize_word(words[i + j].word)
        n  == IF Len(pn[j]) < 3 THEN Len(pn[j]) ELSE 3
    IN  Len(tw) >= n /\ \A c \in 1 .. n : tw[c] = pn[j][c]

\* the candidate indices from cursor c at which every token of pn that is not
\* empty passes the prefix test
HitsIgnoringEmpty(pn, c) ==
    {i \in c .. Len(words) - Len(pn) :
        \A j \in 1 .. Len(pn) : pn[j] # <<>> => TokenPasses(pn, i, j)}

\* the opening phrase of scene k has no token, or punctuation-only tokens
AllTokensEmpty(k) ==
    \A j \in 1 .. PhraseLength(k) : NormalizedTokens(phrases[k].phrase)[j] = <<>>

\* C14: a phrase token whose normalised form is empty passes the prefix test
\* on every transcript word, so a scene is matched at the first candidate
\* index where its other tokens pass; the cursor stays inside the transcript,
\* so a phrase with no token is matched at the cursor index itself, at
\* words[cursor].start, without a warning, and the cursor then moves as after
\* any match.
C14_EmptyPhraseMatches ==
    /\ pc = "loop" => search_from < Len(words)
    /\ \A w \in 1 .. Len(words) :
          startswith(normalize_word(words[w].word), <<>>)
    /\ \A k \in 1 .. Len(matched) :
          LET pn   == NormalizedTokens(phrases[k].phrase)
              c    == CursorBefore(k)
              hits == HitsIgnoringEmpty(pn, c)
          IN  /\ matched[k] = IF hits = {} THEN -1
                              ELSE CHOOSE i \in hits : \A h \in hits : i <= h
              /\ (AllTokensEmpty(k) /\ c + PhraseLength(k) <= Len(words)) =>
                    /\ matched[k] = c
                    /\ boundaries[k].start_seconds = words[c + 1].start
                    /\ \A e \in 1 .. Len(Warnings) :
                          Warnings[e].slug # phrases[k].slug
                    /\ LET later == WordsLaterThan(words[c + 1].start)
                       IN  cursors[k] =
                              IF later = {} THEN c
                              ELSE CHOOSE j \in later : \A h \in later : j <= h

\* an empty file matched at a cursor after the first word, a punctuation-only
\* phrase matched and moved the cursor, and another scene got a warning
C14_Witness ==
    /\ Len(matched) = 3
    /\ \E k \in 1 .. 3 :
          /\ phrases[k].phrase = <<>>
          /\ CursorBefore(k) > 0
          /\ matched[k] = CursorBefore(k)
    /\ \E k \in 1 .. 3 :
          /\ phrases[k].phrase = <<"!">>
          /\ matched[k] # -1
          /\ cursors[k] > CursorBefore(k)
    /\ Len(Warnings) = 1

===========================================================================
